---- MODULE Spec2Model ----
(***************************************************************************)
(* A model of frontendcompiler.cpp: the Lexer (nextToken and its helpers), *)
(* the Parser (advance, parseDeclaration) and the AST nodes it builds.     *)
(* Characters are their ASCII codes; a std::string is a sequence of codes. *)
(* C++ positions are 0-based: src[pos] of the code is s[pos + 1] here.     *)
(***************************************************************************)
EXTENDS Integers, Sequences, FiniteSets, TLC

\* ------------------------------------------------------------------ bounds
\* A source is a concatenation of at most MaxPieces fragments of Pieces.
MaxPieces == 3
\* The driver calls parseDeclaration() at most MaxCalls times.
MaxCalls == 4
\* The driver stops calling nextToken() after MaxEof EndOfFile tokens.
MaxEof == 2
\* A whitespace prefix put before a source has at most MaxWs characters.
MaxWs == 2
MaxDeclares == 3
MaxPrints == 2

\* ------------------------------------------------- <cctype>, "C" locale
\* A plausible slip: only the blank counts as whitespace.
isspaceBlankOnly(c) == c = 32

isspace(c) == c = 32 \/ c \in 9..13
isdigit(c) == c \in 48..57
isalpha(c) == c \in 65..90 \/ c \in 97..122
isalnum(c) == isalpha(c) \/ isdigit(c)
ispunct(c) == c \in 33..47 \/ c \in 58..64 \/ c \in 91..96 \/ c \in 123..126

\* ------------------------------------------------------------ Token, Lexer
TokenType == {"Identifier", "Number", "Keyword", "Symbol", "EndOfFile", "Unknown"}

\* struct Token { type, value, line, column }
Token(t, v, ln, col) == [type |-> t, value |-> v, line |-> ln, column |-> col]

\* Lexer(source): pos(0), line(1), column(1)
Lexer == [pos |-> 0, line |-> 1, column |-> 1]

\* A plausible slip: a newline is counted as a column.
LexerAdvanceNoLine(s, l) ==
    [pos |-> l.pos + 1, line |-> l.line, column |-> l.column + 1]

\* void Lexer::advance()
LexerAdvance(s, l) ==
    IF s[l.pos + 1] = 10
    THEN [pos |-> l.pos + 1, line |-> l.line + 1, column |-> 1]
    ELSE [pos |-> l.pos + 1, line |-> l.line, column |-> l.column + 1]

\* while (pos < src.size() && isspace(src[pos])) advance();
RECURSIVE skipSpace(_, _)
skipSpace(s, l) ==
    IF l.pos < Len(s) /\ isspace(s[l.pos + 1])
    THEN skipSpace(s, LexerAdvance(s, l))
    ELSE l

\* while (pos < src.size() && isalnum(src[pos])) advance();
RECURSIVE scanAlnum(_, _)
scanAlnum(s, l) ==
    IF l.pos < Len(s) /\ isalnum(s[l.pos + 1])
    THEN scanAlnum(s, LexerAdvance(s, l))
    ELSE l

\* while (pos < src.size() && isdigit(src[pos])) advance();
RECURSIVE scanDigits(_, _)
scanDigits(s, l) ==
    IF l.pos < Len(s) /\ isdigit(s[l.pos + 1])
    THEN scanDigits(s, LexerAdvance(s, l))
    ELSE l

\* A plausible slip: the last character of the lexeme is left out.
substrShort(s, start, n) == SubSeq(s, start + 1, start + n - 1)

\* src.substr(start, n), start 0-based
substr(s, start, n) == SubSeq(s, start + 1, start + n)

KwInt == <<105, 110, 116>>
KwReturn == <<114, 101, 116, 117, 114, 110>>

\* A plausible slip: the keyword test matches a prefix of the lexeme.
isKeywordPrefix(val) ==
    \/ Len(val) >= Len(KwInt) /\ SubSeq(val, 1, Len(KwInt)) = KwInt
    \/ Len(val) >= Len(KwReturn) /\ SubSeq(val, 1, Len(KwReturn)) = KwReturn

\* (val == "int" || val == "return")
isKeyword(val) == val = KwInt \/ val = KwReturn

\* Token Lexer::identifier()
identifier(s, l) ==
    LET start == l.pos
        l1 == scanAlnum(s, l)
        val == substr(s, start, l1.pos - start)
    IN  [tok |-> Token(IF isKeyword(val) THEN "Keyword" ELSE "Identifier",
                       val, l1.line, l1.column),
         lex |-> l1]

\* Token Lexer::number()
number(s, l) ==
    LET start == l.pos
        l1 == scanDigits(s, l)
    IN  [tok |-> Token("Number", substr(s, start, l1.pos - start), l1.line, l1.column),
         lex |-> l1]

\* A plausible slip: a symbol takes the whole run of punctuation characters.
RECURSIVE scanPunct(_, _)
scanPunct(s, l) ==
    IF l.pos < Len(s) /\ ispunct(s[l.pos + 1])
    THEN scanPunct(s, [l EXCEPT !.pos = @ + 1])
    ELSE l

symbolGreedy(s, l) ==
    LET l1 == scanPunct(s, l)
    IN  [tok |-> Token("Symbol", substr(s, l.pos, l1.pos - l.pos), l1.line, l1.column),
         lex |-> l1]

\* A plausible slip: src[pos] for src[pos++], the character is not consumed.
symbolNoConsume(s, l) ==
    [tok |-> Token("Symbol", <<s[l.pos + 1]>>, l.line, l.column),
     lex |-> l]

\* Token Lexer::symbol(): src[pos++] moves pos alone, line and column stay
symbol(s, l) ==
    [tok |-> Token("Symbol", <<s[l.pos + 1]>>, l.line, l.column),
     lex |-> [l EXCEPT !.pos = @ + 1]]

\* A plausible slip: the end of the buffer is consumed like a character.
nextTokenEofAdvances(s, l) ==
    LET l1 == skipSpace(s, l)
    IN  IF l1.pos >= Len(s)
        THEN [tok |-> Token("EndOfFile", <<>>, l1.line, l1.column),
              lex |-> [l1 EXCEPT !.column = @ + 1]]
        ELSE IF isalpha(s[l1.pos + 1]) THEN identifier(s, l1)
        ELSE IF isdigit(s[l1.pos + 1]) THEN number(s, l1)
        ELSE IF ispunct(s[l1.pos + 1]) THEN symbol(s, l1)
        ELSE [tok |-> Token("Unknown", <<s[l1.pos + 1]>>, l1.line, l1.column),
              lex |-> [l1 EXCEPT !.pos = @ + 1]]

\* Token Lexer::nextToken(): the token returned and the Lexer afterwards
nextToken(s, l) ==
    LET l1 == skipSpace(s, l)
    IN  IF l1.pos >= Len(s)
        THEN [tok |-> Token("EndOfFile", <<>>, l1.line, l1.column), lex |-> l1]
        ELSE IF isalpha(s[l1.pos + 1]) THEN identifier(s, l1)
        ELSE IF isdigit(s[l1.pos + 1]) THEN number(s, l1)
        ELSE IF ispunct(s[l1.pos + 1]) THEN symbol(s, l1)
        ELSE [tok |-> Token("Unknown", <<s[l1.pos + 1]>>, l1.line, l1.column),
              lex |-> [l1 EXCEPT !.pos = @ + 1]]

\* the tokens repeated nextToken() calls return on a Lexer in state l, up to
\* and including the first EndOfFile
RECURSIVE tokensFrom(_, _)
tokensFrom(s, l) ==
    LET r == nextToken(s, l)
    IN  IF r.tok.type = "EndOfFile" THEN <<r.tok>>
        ELSE <<r.tok>> \o tokensFrom(s, r.lex)

\* --------------------------------------------------------------- AST nodes
\* a null ASTPtr
null == [kind |-> "null"]

\* NumberNode(int val) : value(val)
NumberNode(val) == [kind |-> "Number", value |-> val]

\* IdentifierNode(const std::string& n) : name(n)
IdentifierNode(n) == [kind |-> "Identifier", name |-> n]

\* A plausible slip: the constructor drops its child.
DeclarationNodeNoChild(t, n, v) ==
    [kind |-> "Declaration", type |-> t, name |-> n, value |-> null]

\* DeclarationNode(t, n, v) : type(t), name(n), value(v)
DeclarationNode(t, n, v) ==
    [kind |-> "Declaration", type |-> t, name |-> n, value |-> v]

\* ------------------------------------------------------------------ print
\* std::string(indent, ' ')
RECURSIVE spaces(_)
spaces(n) == IF n <= 0 THEN <<>> ELSE <<32>> \o spaces(n - 1)

\* operator<<(int): the decimal digits, after a '-' when negative
RECURSIVE decimal(_)
decimal(n) ==
    IF n < 0 THEN <<45>> \o decimal(-n)
    ELSE IF n < 10 THEN <<48 + n>>
    ELSE decimal(n \div 10) \o <<48 + (n % 10)>>

\* "Number: ", "Identifier: ", "Declaration: "
StrNumber == <<78, 117, 109, 98, 101, 114, 58, 32>>
StrIdentifier == <<73, 100, 101, 110, 116, 105, 102, 105, 101, 114, 58, 32>>
StrDeclaration == <<68, 101, 99, 108, 97, 114, 97, 116, 105, 111, 110, 58, 32>>

\* virtual void ASTNode::print(int indent) const, writing to the stream os
RECURSIVE print(_, _, _)

\* void NumberNode::print(int indent) const
printNumber(node, indent, os) ==
    os \o spaces(indent) \o StrNumber \o decimal(node.value) \o <<10>>

\* void IdentifierNode::print(int indent) const
printIdentifier(node, indent, os) ==
    os \o spaces(indent) \o StrIdentifier \o node.name \o <<10>>

\* A plausible slip: the child is written at the indent of its parent.
printDeclarationFlat(node, indent, os) ==
    LET os1 == os \o spaces(indent) \o StrDeclaration \o node.type \o <<32>>
                  \o node.name \o <<10>>
    IN  IF node.value # null THEN print(node.value, indent, os1) ELSE os1

\* A plausible slip: a heading that is written once per stream.
printDeclarationHeadOnce(node, indent, os) ==
    LET os1 == IF os # <<>> THEN os
               ELSE os \o spaces(indent) \o StrDeclaration \o node.type \o <<32>>
                       \o node.name \o <<10>>
    IN  IF node.value # null THEN print(node.value, indent + 2, os1) ELSE os1

\* void DeclarationNode::print(int indent) const
printDeclaration(node, indent, os) ==
    LET os1 == os \o spaces(indent) \o StrDeclaration \o node.type \o <<32>>
                  \o node.name \o <<10>>
    IN  IF node.value # null THEN print(node.value, indent + 2, os1) ELSE os1

print(node, indent, os) ==
    IF node.kind = "Number" THEN printNumber(node, indent, os)
    ELSE IF node.kind = "Identifier" THEN printIdentifier(node, indent, os)
    ELSE printDeclaration(node, indent, os)

\* ------------------------------------------------------------------ Parser
\* the largest int, the range std::stoi converts into
INT_MAX == 2147483647

\* std::stoi on the digits from index i on, acc the value so far; the test
\* acc * 10 + d > INT_MAX is made without leaving the range
RECURSIVE stoiFrom(_, _, _)
stoiFrom(str, i, acc) ==
    IF i > Len(str) \/ ~isdigit(str[i])
    THEN [what |-> "ok", value |-> acc]
    ELSE LET d == str[i] - 48
         IN  IF acc > (INT_MAX - d) \div 10
             THEN [what |-> "out_of_range", value |-> 0]
             ELSE stoiFrom(str, i + 1, acc * 10 + d)

\* std::stoi(str) for a string without sign or leading blanks: the value, or
\* the exception it throws
stoi(str) ==
    IF str = <<>> \/ ~isdigit(str[1])
    THEN [what |-> "invalid_argument", value |-> 0]
    ELSE stoiFrom(str, 1, 0)

\* "Unexpected token: "
MsgUnexpected ==
    <<85, 110, 101, 120, 112, 101, 99, 116, 101, 100, 32, 116, 111, 107, 101,
      110, 58, 32>>

\* "Expected identifier after 'int'\n"
MsgExpectedIdentifier ==
    <<69, 120, 112, 101, 99, 116, 101, 100, 32, 105, 100, 101, 110, 116, 105,
      102, 105, 101, 114, 32, 97, 102, 116, 101, 114, 32, 39, 105, 110, 116,
      39, 10>>

\* "Expected '=' after identifier\n"
MsgExpectedEquals ==
    <<69, 120, 112, 101, 99, 116, 101, 100, 32, 39, 61, 39, 32, 97, 102, 116,
      101, 114, 32, 105, 100, 101, 110, 116, 105, 102, 105, 101, 114, 10>>

\* "Expected number after '='\n"
MsgExpectedNumber ==
    <<69, 120, 112, 101, 99, 116, 101, 100, 32, 110, 117, 109, 98, 101, 114,
      32, 97, 102, 116, 101, 114, 32, 39, 61, 39, 10>>

\* "Expected ';' at the end of declaration\n"
MsgExpectedSemicolon ==
    <<69, 120, 112, 101, 99, 116, 101, 100, 32, 39, 59, 39, 32, 97, 116, 32,
      116, 104, 101, 32, 101, 110, 100, 32, 111, 102, 32, 100, 101, 99, 108,
      97, 114, 97, 116, 105, 111, 110, 10>>

\* A plausible slip: the Start diagnostic leaves the token out.
diagUnexpectedNoText(cur) == MsgUnexpected \o <<10>>

\* std::cerr << "Unexpected token: " << current.value << '\n'
diagUnexpected(cur) == MsgUnexpected \o cur.value \o <<10>>

\* A plausible slip: the test forgets the symbol's text.
isAnySymbol(tok, ch) == tok.type = "Symbol"

\* current.type == TokenType::Symbol && current.value == <ch>
isSymbol(tok, ch) == tok.type = "Symbol" /\ tok.value = <<ch>>

\* current.type == TokenType::Keyword && current.value == "int"
isIntKeyword(tok) == tok.type = "Keyword" /\ tok.value = KwInt

\* What one parseDeclaration() call leaves: how it ended ("node", "absent",
\* or "throw" when std::stoi throws), the pointer returned, the checkpoint
\* whose return statement was taken (1 Start .. 5 AfterValue, 0 none), what
\* went to std::cerr, the tokens advance() pulled, and the Parser afterwards.
Outcome(how, node, at, diag, pulled, l, cur) ==
    [outcome |-> how, node |-> node, failedAt |-> at, diag |-> diag,
     pulled |-> pulled, lex |-> l, current |-> cur]

\* A plausible slip: a failure at Start skips the offending token.
parseDeclarationSkips(s, l, cur) ==
    IF isIntKeyword(cur)
    THEN
      LET type == cur.value
          a1 == nextToken(s, l)
      IN
      IF a1.tok.type # "Identifier"
      THEN Outcome("absent", null, 2, MsgExpectedIdentifier, <<a1.tok>>, a1.lex, a1.tok)
      ELSE
      LET name == a1.tok.value
          a2 == nextToken(s, a1.lex)
      IN
      IF ~isSymbol(a2.tok, 61)
      THEN Outcome("absent", null, 3, MsgExpectedEquals, <<a1.tok, a2.tok>>, a2.lex, a2.tok)
      ELSE
      LET a3 == nextToken(s, a2.lex)
      IN
      IF a3.tok.type # "Number"
      THEN Outcome("absent", null, 4, MsgExpectedNumber,
                   <<a1.tok, a2.tok, a3.tok>>, a3.lex, a3.tok)
      ELSE
      LET val == stoi(a3.tok.value)
      IN
      IF val.what # "ok"
      THEN Outcome("throw", null, 0, <<>>, <<a1.tok, a2.tok, a3.tok>>, a3.lex, a3.tok)
      ELSE
      LET a4 == nextToken(s, a3.lex)
      IN
      IF ~isSymbol(a4.tok, 59)
      THEN Outcome("absent", null, 5, MsgExpectedSemicolon,
                   <<a1.tok, a2.tok, a3.tok, a4.tok>>, a4.lex, a4.tok)
      ELSE
      LET a5 == nextToken(s, a4.lex)
      IN  Outcome("node", DeclarationNode(type, name, NumberNode(val.value)), 0, <<>>,
                  <<a1.tok, a2.tok, a3.tok, a4.tok, a5.tok>>, a5.lex, a5.tok)
    ELSE LET a0 == nextToken(s, l)
         IN  Outcome("absent", null, 1, diagUnexpected(cur), <<a0.tok>>, a0.lex,
                     a0.tok)

\* ASTPtr Parser::parseDeclaration(), each advance() being
\* current = lexer.nextToken()
parseDeclaration(s, l, cur) ==
    IF isIntKeyword(cur)
    THEN
      LET type == cur.value
          a1 == nextToken(s, l)
      IN
      IF a1.tok.type # "Identifier"
      THEN Outcome("absent", null, 2, MsgExpectedIdentifier, <<a1.tok>>, a1.lex, a1.tok)
      ELSE
      LET name == a1.tok.value
          a2 == nextToken(s, a1.lex)
      IN
      IF ~isSymbol(a2.tok, 61)
      THEN Outcome("absent", null, 3, MsgExpectedEquals, <<a1.tok, a2.tok>>, a2.lex, a2.tok)
      ELSE
      LET a3 == nextToken(s, a2.lex)
      IN
      IF a3.tok.type # "Number"
      THEN Outcome("absent", null, 4, MsgExpectedNumber,
                   <<a1.tok, a2.tok, a3.tok>>, a3.lex, a3.tok)
      ELSE
      LET val == stoi(a3.tok.value)
      IN
      IF val.what # "ok"
      THEN Outcome("throw", null, 0, <<>>, <<a1.tok, a2.tok, a3.tok>>, a3.lex, a3.tok)
      ELSE
      LET a4 == nextToken(s, a3.lex)
      IN
      IF ~isSymbol(a4.tok, 59)
      THEN Outcome("absent", null, 5, MsgExpectedSemicolon,
                   <<a1.tok, a2.tok, a3.tok, a4.tok>>, a4.lex, a4.tok)
      ELSE
      LET a5 == nextToken(s, a4.lex)
      IN  Outcome("node", DeclarationNode(type, name, NumberNode(val.value)), 0, <<>>,
                  <<a1.tok, a2.tok, a3.tok, a4.tok, a5.tok>>, a5.lex, a5.tok)
    ELSE Outcome("absent", null, 1, diagUnexpected(cur), <<>>, l, cur)

\* ----------------------------------------------------------------- sources
\* the fragments sources are built from: int, x, "int x", =, ;, 42, a blank,
\* a newline, the control character 0x01, "int x = 42;"
Pieces ==
    { KwInt, <<120>>, <<105, 110, 116, 32, 120>>, <<61>>, <<59>>, <<52, 50>>,
      <<32>>, <<10>>, <<1>>, <<105, 110, 116, 32, 120, 32, 61, 32, 52, 50, 59>> }

\* "int x = 42;" (the source of main)
SrcMain == <<105, 110, 116, 32, 120, 32, 61, 32, 52, 50, 59>>
\* "int x 42;"
SrcNoEquals == <<105, 110, 116, 32, 120, 32, 52, 50, 59>>
\* "int x = 2147483648;"
SrcTooBig == <<105, 110, 116, 32, 120, 32, 61, 32, 50, 49, 52, 55, 52, 56, 51, 54, 52, 56, 59>>
\* "int x = 2147483647;"
SrcIntMax == <<105, 110, 116, 32, 120, 32, 61, 32, 50, 49, 52, 55, 52, 56, 51, 54, 52, 55, 59>>
\* "int y=7;"
SrcDense == <<105, 110, 116, 32, 121, 61, 55, 59>>
\* "int x=2147483648" (no ';')
SrcTooBigOpen == <<105, 110, 116, 32, 120, 61, 50, 49, 52, 55, 52, 56, 51, 54, 52, 56>>
\* "int y=7;int x=2147483648;"
SrcTooBigSecond ==
    SrcDense \o SrcTooBigOpen \o <<59>>
\* "int x = 007;"
SrcLeadingZeros == <<105, 110, 116, 32, 120, 32, 61, 32, 48, 48, 55, 59>>

\* further sources: the ones above and return, "return x", returnx, Int,
\* RETURN, integer, returns, int1, "int return = 42;"
Examples ==
    { SrcMain, SrcNoEquals, SrcTooBig, SrcIntMax, SrcDense, SrcTooBigOpen,
      SrcTooBigSecond, SrcLeadingZeros,
      KwReturn, KwReturn \o <<32, 120>>, KwReturn \o <<120>>,
      <<73, 110, 116>>, <<82, 69, 84, 85, 82, 78>>,
      <<105, 110, 116, 101, 103, 101, 114>>,
      <<114, 101, 116, 117, 114, 110, 115>>, <<105, 110, 116, 49>>,
      KwInt \o <<32>> \o KwReturn \o <<32, 61, 32, 52, 50, 59>> }

RECURSIVE Concats(_)
Concats(n) ==
    IF n = 0 THEN {<<>>}
    ELSE LET prev == Concats(n - 1)
         IN  prev \cup {a \o p : a \in prev, p \in Pieces}

Sources == Concats(MaxPieces) \cup Examples

\* the whitespace-only strings of at most n characters: blanks and newlines
RECURSIVE WsStrings(_)
WsStrings(n) ==
    IF n = 0 THEN {<<>>}
    ELSE LET prev == WsStrings(n - 1)
         IN  prev \cup {Append(w, c) : w \in prev, c \in {32, 10}}

\* ----------------------------------------------------------- state machine
VARIABLES
    src,        \* Lexer::src
    pos,        \* Lexer::pos
    line,       \* Lexer::line
    column,     \* Lexer::column
    parser,     \* whether a Parser has been constructed on the Lexer
    current,    \* Parser::current
    toks,       \* every token nextToken() has returned, in order
    calls,      \* what each parseDeclaration() call left, in order
    symbols,    \* SymbolTable::symbols
    declared,   \* every declare() call made, in order, as <<name, type>>
    answer,     \* what the last exists() or typeOf() call returned
    ast,        \* the node the driver holds
    out,        \* the characters written to std::cout
    printed     \* what each print() call wrote, in order

\* the variables of the SymbolTable and those of the rendering
symVars == <<symbols, declared, answer>>
outVars == <<ast, out, printed>>

vars == <<src, pos, line, column, parser, current, toks, calls,
          symbols, declared, answer, ast, out, printed>>

\* Parser::current before the Parser exists
NoToken == [type |-> "none", value |-> <<>>, line |-> 0, column |-> 0]

\* the Lexer object as a record
lexer == [pos |-> pos, line |-> line, column |-> column]

\* the number of EndOfFile tokens returned so far
EofCount == Cardinality({i \in 1..Len(toks) : toks[i].type = "EndOfFile"})

\* whether an exception has left the last parseDeclaration() call
Thrown == IF calls = <<>> THEN FALSE ELSE calls[Len(calls)].outcome = "throw"

\* no exists() or typeOf() call has been made
NoAnswer == [op |-> "none", name |-> "", result |-> ""]

\* std::string source; Lexer lexer(source);
Init ==
    /\ src \in Sources
    /\ pos = 0
    /\ line = 1
    /\ column = 1
    /\ parser = FALSE
    /\ current = NoToken
    /\ toks = <<>>
    /\ calls = <<>>
    /\ symbols = <<>>
    /\ declared = <<>>
    /\ answer = NoAnswer
    /\ ast = null
    /\ out = <<>>
    /\ printed = <<>>

\* the driver calls lexer.nextToken() itself
NextToken ==
    /\ ~parser
    /\ EofCount < MaxEof
    /\ LET r == nextToken(src, lexer)
       IN  /\ pos' = r.lex.pos
           /\ line' = r.lex.line
           /\ column' = r.lex.column
           /\ toks' = Append(toks, r.tok)
    /\ UNCHANGED <<src, parser, current, calls, symVars, outVars>>

\* Parser parser(lexer): the constructor calls advance()
NewParser ==
    /\ ~parser
    /\ toks = <<>>
    /\ LET r == nextToken(src, lexer)
       IN  /\ pos' = r.lex.pos
           /\ line' = r.lex.line
           /\ column' = r.lex.column
           /\ current' = r.tok
           /\ toks' = Append(toks, r.tok)
    /\ parser' = TRUE
    /\ UNCHANGED <<src, calls, symVars, outVars>>

\* the driver calls parser.parseDeclaration(); an exception leaving the call
\* ends the program
ParseDeclaration ==
    /\ parser
    /\ Len(calls) < MaxCalls
    /\ ~Thrown
    /\ LET r == parseDeclaration(src, lexer, current)
       IN  /\ pos' = r.lex.pos
           /\ line' = r.lex.line
           /\ column' = r.lex.column
           /\ current' = r.current
           /\ toks' = toks \o r.pulled
           /\ calls' = Append(calls,
                  [outcome |-> r.outcome, node |-> r.node, failedAt |-> r.failedAt,
                   diag |-> r.diag, pulled |-> Len(r.pulled),
                   posBefore |-> pos, lexAfter |-> r.lex,
                   currentBefore |-> current,
                   currentAfter |-> r.current])
           /\ ast' = r.node
    /\ UNCHANGED <<src, parser, symVars, out, printed>>

Next == NextToken \/ NewParser \/ ParseDeclaration

Spec == Init /\ [][Next]_vars

\* ------------------------------------------------------------ SymbolTable
\* the names and the types the driver passes to the SymbolTable
Names == {"x", "y", ""}
Types == {"int", "return", ""}

\* what std::map::insert would do: an existing entry is kept
declareInsertOnly(t, name, type) ==
    IF name \in DOMAIN t THEN t
    ELSE [n \in DOMAIN t \cup {name} |-> IF n = name THEN type ELSE t[n]]

\* void SymbolTable::declare(name, type): symbols[name] = type
declare(t, name, type) ==
    [n \in DOMAIN t \cup {name} |-> IF n = name THEN type ELSE t[n]]

\* bool SymbolTable::exists(name) const
exists(t, name) == name \in DOMAIN t

\* std::string SymbolTable::typeOf(name) const
typeOf(t, name) == IF name \in DOMAIN t THEN t[name] ELSE ""

\* SymbolTable table; on the side of a Lexer that is never called
InitSymbols ==
    /\ Init
    /\ src = SrcMain

Declare ==
    /\ Len(declared) < MaxDeclares
    /\ \E name \in Names, type \in Types :
          /\ symbols' = declare(symbols, name, type)
          /\ declared' = Append(declared, <<name, type>>)
    /\ answer' = NoAnswer
    /\ UNCHANGED <<src, pos, line, column, parser, current, toks, calls, outVars>>

Exists ==
    /\ \E name \in Names :
          answer' = [op |-> "exists", name |-> name,
                     result |-> exists(symbols, name)]
    /\ UNCHANGED <<src, pos, line, column, parser, current, toks, calls,
                   symbols, declared, outVars>>

TypeOf ==
    /\ \E name \in Names :
          answer' = [op |-> "typeOf", name |-> name,
                     result |-> typeOf(symbols, name)]
    /\ UNCHANGED <<src, pos, line, column, parser, current, toks, calls,
                   symbols, declared, outVars>>

NextSymbols == Declare \/ Exists \/ TypeOf

SpecSymbols == InitSymbols /\ [][NextSymbols]_vars

\* -------------------------------------------------------------- rendering
\* the sources whose declarations are rendered
RenderSources ==
    {SrcMain, SrcDense, SrcIntMax, SrcLeadingZeros, SrcNoEquals, <<>>}

\* the nodes a driver builds with the constructors
Leaves ==
    {NumberNode(0), NumberNode(42), NumberNode(-5), IdentifierNode(<<120>>),
     IdentifierNode(<<>>)}
Built ==
    Leaves
    \cup {DeclarationNode(KwInt, <<120>>, v) : v \in Leaves \cup {null}}
    \cup {DeclarationNode(<<>>, <<121>>, DeclarationNode(KwInt, <<120>>, NumberNode(7)))}

\* the indents print() is called with
Indents == {0, 2, 5}

InitRender ==
    /\ Init
    /\ src \in RenderSources

\* the driver builds a node itself instead of parsing one
Build ==
    /\ ~parser
    /\ ast = null
    /\ ast' \in Built
    /\ UNCHANGED <<src, pos, line, column, parser, current, toks, calls,
                   symVars, out, printed>>

\* if (ast) ast->print(indent);
PrintAst ==
    /\ ast # null
    /\ Len(printed) < MaxPrints
    /\ \E indent \in Indents :
          /\ out' = print(ast, indent, out)
          /\ printed' = Append(printed,
                 [node |-> ast, indent |-> indent, from |-> Len(out),
                  to |-> Len(out')])
    /\ UNCHANGED <<src, pos, line, column, parser, current, toks, calls,
                   symVars, ast>>

NextRender == NewParser \/ ParseDeclaration \/ Build \/ PrintAst

SpecRender == InitRender /\ [][NextRender]_vars

\* ------------------------------------------------- the reference tokenizer
\* The rule of the specification, stated over indexes 1..Len(s) and without
\* the Lexer's cursor: the end of the maximal run of P-characters from i.
RunEnd(s, i, P(_)) ==
    CHOOSE j \in i..(Len(s) + 1) :
        /\ j = Len(s) + 1 \/ ~P(s[j])
        /\ \A k \in i..(j - 1) : P(s[k])

\* the index after the token that starts at i
RefEnd(s, i) ==
    IF isalpha(s[i]) THEN RunEnd(s, i, isalnum)
    ELSE IF isdigit(s[i]) THEN RunEnd(s, i, isdigit)
    ELSE i + 1

\* the kind of the token that starts at i and ends before j
RefKind(s, i, j) ==
    IF isalpha(s[i])
    THEN IF SubSeq(s, i, j - 1) \in {<<105, 110, 116>>, <<114, 101, 116, 117, 114, 110>>}
         THEN "Keyword" ELSE "Identifier"
    ELSE IF isdigit(s[i]) THEN "Number"
    ELSE IF ispunct(s[i]) THEN "Symbol"
    ELSE "Unknown"

RefEof == [type |-> "EndOfFile", value |-> <<>>]

\* the (kind, text) pairs of s from index i on, EndOfFile included
RECURSIVE RefTokens(_, _)
RefTokens(s, i) ==
    LET k == RunEnd(s, i, isspace)
    IN  IF k > Len(s) THEN <<RefEof>>
        ELSE LET e == RefEnd(s, k)
             IN  <<[type |-> RefKind(s, k, e), value |-> SubSeq(s, k, e - 1)]>>
                 \o RefTokens(s, e)

\* the k-th pair of a token list that repeats its EndOfFile for ever
At(ref, k) == IF k <= Len(ref) THEN ref[k] ELSE RefEof

KindText(tok) == [type |-> tok.type, value |-> tok.value]

\* whether token t is what checkpoint k (1 Start .. 5 AfterValue) expects
ExpectedAt(k, t) ==
    CASE k = 1 -> t.type = "Keyword" /\ t.value = <<105, 110, 116>>
      [] k = 2 -> t.type = "Identifier"
      [] k = 3 -> t.type = "Symbol" /\ t.value = <<61>>
      [] k = 4 -> t.type = "Number"
      [] k = 5 -> t.type = "Symbol" /\ t.value = <<59>>

\* the tokens call c of parseDeclaration() has before it: the Parser's
\* current token, then the tokens of the source from the Lexer's cursor on
Ahead(c) == <<KindText(c.currentBefore)>> \o RefTokens(src, c.posBefore + 1)

\* the earliest checkpoint whose expected token is not there, 0 if none
FirstMismatch(ahead) ==
    IF \A k \in 1..5 : ExpectedAt(k, At(ahead, k)) THEN 0
    ELSE CHOOSE k \in 1..5 :
            /\ ~ExpectedAt(k, At(ahead, k))
            /\ \A j \in 1..(k - 1) : ExpectedAt(j, At(ahead, j))

\* the decimal digits of n > 0, most significant first
RECURSIVE Digits(_)
Digits(n) == IF n = 0 THEN <<>> ELSE Append(Digits(n \div 10), 48 + (n % 10))

\* a digit run without its leading zeros
RECURSIVE StripZeros(_)
StripZeros(d) == IF d # <<>> /\ d[1] = 48 THEN StripZeros(Tail(d)) ELSE d

\* whether t occurs in d as a contiguous run
Contains(d, t) ==
    \/ t = <<>>
    \/ \E i \in 1..(Len(d) - Len(t) + 1) : SubSeq(d, i, i + Len(t) - 1) = t

\* the number of characters c in d
Count(d, c) == Cardinality({i \in 1..Len(d) : d[i] = c})

\* the message checkpoint k reports for the offending token t
CheckpointDiag(k, t) ==
    CASE k = 1 -> MsgUnexpected \o t.value \o <<10>>
      [] k = 2 -> MsgExpectedIdentifier
      [] k = 3 -> MsgExpectedEquals
      [] k = 4 -> MsgExpectedNumber
      [] k = 5 -> MsgExpectedSemicolon

\* the column of the character after the first p characters of s: 1 plus the
\* characters since the last newline among them
ColumnAt(s, p) ==
    LET nl == {i \in 1..p : s[i] = 10}
    IN  IF nl = {} THEN 1 + p
        ELSE 1 + p - (CHOOSE i \in nl : \A j \in nl : j <= i)

\* the line of the character after the first p characters of s
LineAt(s, p) == 1 + Cardinality({i \in 1..p : s[i] = 10})

\* whether s is k declarations in a row and nothing else
WellFormed(s, k) ==
    LET ref == RefTokens(s, 1)
    IN  /\ Len(ref) = 5 * k + 1
        /\ \A i \in 0..(k - 1) : \A j \in 1..5 : ExpectedAt(j, ref[5 * i + j])

\* ------------------------------------------------------------------ claims
\* C1: the first parseDeclaration() on a fresh Parser returns a Declaration
\* node if and only if the first five tokens of the source are Keyword int,
\* an Identifier, Symbol =, a Number, Symbol ;, and the node then has type
\* int, the Identifier's name and a NumberNode with the Number's value.
C1_NodeIffGrammar ==
    calls # <<>> =>
        LET c == calls[1]
            ref == RefTokens(src, 1)
        IN  /\ c.outcome = "node" <=> FirstMismatch(ref) = 0
            /\ c.outcome = "node" =>
                 /\ c.node.kind = "Declaration"
                 /\ c.node.type = <<105, 110, 116>>
                 /\ c.node.name = At(ref, 2).value
                 /\ c.node.value.kind = "Number"
                 /\ Digits(c.node.value.value) = StripZeros(At(ref, 4).value)

C3_NoPartialDeclaration ==
    \A i \in 1..Len(calls) :
        LET c == calls[i]
        IN  /\ c.node # null =>
                 /\ c.node.kind = "Declaration"
                 /\ c.node.value # null
                 /\ c.node.value.kind = "Number"
                 /\ c.outcome = "node"
                 /\ c.failedAt = 0
                 /\ FirstMismatch(Ahead(c)) = 0
                 /\ c.pulled = 5
            /\ c.failedAt # 0 => c.node = null /\ c.outcome = "absent"
            /\ c.outcome = "node" => c.node # null

\* C3 witness: one call has returned a node and a later one has failed.
C3_Witness ==
    /\ Len(calls) >= 2
    /\ calls[1].node # null
    /\ calls[2].failedAt # 0

\* C4 as stated: the diagnostic of every checkpoint failure contains the
\* text of the offending token, the Parser's current token at the failure.
C4_DiagnosticHasTokenText ==
    \A i \in 1..Len(calls) :
        calls[i].outcome = "absent" =>
            Contains(calls[i].diag, calls[i].currentAfter.value)

\* the checkpoint a diagnostic names, 0 if none
DiagCheckpoint(d) ==
    IF Len(d) >= Len(MsgUnexpected) /\ SubSeq(d, 1, Len(MsgUnexpected)) = MsgUnexpected
    THEN 1
    ELSE IF d = MsgExpectedIdentifier THEN 2
    ELSE IF d = MsgExpectedEquals THEN 3
    ELSE IF d = MsgExpectedNumber THEN 4
    ELSE IF d = MsgExpectedSemicolon THEN 5
    ELSE 0

\* C4 amended: the diagnostic of every checkpoint failure identifies the
\* checkpoint; the Start diagnostic is "Unexpected token: " followed by the
\* offending token's text, and the diagnostics of AfterType, AfterName,
\* AfterEquals and AfterValue are fixed messages whatever the token is.
C4_DiagnosticIdentifiesCheckpoint ==
    \A i \in 1..Len(calls) :
        LET c == calls[i]
        IN  c.outcome = "absent" =>
              /\ DiagCheckpoint(c.diag) = c.failedAt
              /\ c.failedAt = 1 =>
                   /\ c.diag = MsgUnexpected \o c.currentAfter.value \o <<10>>
                   /\ Contains(c.diag, c.currentAfter.value)
              /\ c.failedAt # 1 =>
                   c.diag \in {MsgExpectedIdentifier, MsgExpectedEquals,
                               MsgExpectedNumber, MsgExpectedSemicolon}

\* C4 witness: a failure past Start whose diagnostic lacks the offending
\* token's text, then a failure at Start on that same token.
C4_Witness ==
    /\ Len(calls) >= 2
    /\ calls[1].failedAt > 1
    /\ ~Contains(calls[1].diag, calls[1].currentAfter.value)
    /\ calls[2].failedAt = 1
    /\ calls[2].currentAfter.value # <<>>
    /\ Contains(calls[2].diag, calls[2].currentAfter.value)

\* C5: every parseDeclaration() ends with a Declaration node or with no node
\* and a diagnostic; no conversion error leaves the call.
C5_TwoOutcomes ==
    \A i \in 1..Len(calls) :
        \/ calls[i].outcome = "node" /\ calls[i].node # null
        \/ calls[i].outcome = "absent" /\ calls[i].node = null /\ calls[i].diag # <<>>

\* C6: a successful parseDeclaration() has pulled five tokens and leaves the
\* token after the ';' current; k calls on k declarations in a row return k
\* nodes in source order and leave EndOfFile current.
C6_ConsumesFiveTokens ==
    /\ \A i \in 1..Len(calls) :
         calls[i].outcome = "node" =>
            /\ calls[i].pulled = 5
            /\ KindText(calls[i].currentAfter) = At(Ahead(calls[i]), 6)
    /\ \A k \in 1..MaxCalls :
         WellFormed(src, k) =>
            /\ \A i \in 1..Len(calls) : i <= k =>
                 /\ calls[i].outcome = "node"
                 /\ calls[i].node.name = RefTokens(src, 1)[5 * (i - 1) + 2].value
            /\ Len(calls) >= k => calls[k].currentAfter.type = "EndOfFile"

\* C7: the tokens nextToken() returns are, in order, those of the reference
\* rule, EndOfFile repeating; "int x = 42;" gives Keyword int, Identifier x,
\* Symbol =, Number 42, Symbol ;, EndOfFile, and "==" two Symbol = tokens.
C7_ReferenceTokens ==
    LET ref == RefTokens(src, 1)
    IN  /\ \A i \in 1..Len(toks) : KindText(toks[i]) = At(ref, i)
        /\ src = SrcMain =>
             \A i \in 1..Len(toks) :
                KindText(toks[i]) =
                    At(<<[type |-> "Keyword", value |-> <<105, 110, 116>>],
                         [type |-> "Identifier", value |-> <<120>>],
                         [type |-> "Symbol", value |-> <<61>>],
                         [type |-> "Number", value |-> <<52, 50>>],
                         [type |-> "Symbol", value |-> <<59>>]>>, i)
        /\ src = <<61, 61>> =>
             \A i \in 1..Len(toks) :
                KindText(toks[i]) =
                    At(<<[type |-> "Symbol", value |-> <<61>>],
                         [type |-> "Symbol", value |-> <<61>>]>>, i)

\* C7 witness: "==" has been tokenized to its end.
C7_Witness ==
    /\ src = <<61, 61>>
    /\ Len(toks) = 3
    /\ toks[3].type = "EndOfFile"

\* C8: a token that is an alphanumeric run starting with a letter is a
\* Keyword exactly when its text is "int" or "return", an Identifier if not.
C8_KeywordExactly ==
    \A i \in 1..Len(toks) :
        (toks[i].value # <<>> /\ isalpha(toks[i].value[1])) =>
            /\ toks[i].type \in {"Keyword", "Identifier"}
            /\ toks[i].type = "Keyword" <=>
                 toks[i].value \in {<<105, 110, 116>>, <<114, 101, 116, 117, 114, 110>>}

\* C8 witness: "integer" has been returned as an Identifier.
C8_Witness ==
    /\ toks # <<>>
    /\ toks[1].value = <<105, 110, 116, 101, 103, 101, 114>>
    /\ toks[1].type = "Identifier"

\* C9: the Lexer's column is 1 plus the number of characters consumed since
\* the last consumed newline.
C9_ColumnCountsCharacters == column = ColumnAt(src, pos)

\* C10: the token nextToken() has just returned, of whatever kind, carries
\* the Lexer's line and column after its lexeme was consumed, and these are
\* the position of the token's final boundary, not of its first character.
C10_TokenCarriesEndPosition ==
    toks # <<>> =>
        /\ toks[Len(toks)].line = line
        /\ toks[Len(toks)].column = column
        /\ toks[Len(toks)].line = LineAt(src, pos)
        /\ toks[Len(toks)].column = ColumnAt(src, pos)


\* the (kind, text) pairs of a token list
KindTexts(ts) == [i \in 1..Len(ts) |-> KindText(ts[i])]

\* C11: once nextToken() has been called on the source up to its first
\* EndOfFile, the (kind, text) pairs returned are those nextToken() returns
\* on any whitespace-only string followed by the source.
C11_WhitespacePrefix ==
    (~parser /\ EofCount = 1) =>
        \A w \in WsStrings(MaxWs) :
            KindTexts(tokensFrom(w \o src, Lexer)) = KindTexts(toks)

\* C11 witness: "int x = 42;" has been tokenized to its first EndOfFile.
C11_Witness ==
    /\ ~parser
    /\ EofCount = 1
    /\ src = SrcMain
    /\ Len(toks) = 6


\* the tokens a step adds to those returned so far
NewTokens == SubSeq(toks', Len(toks) + 1, Len(toks'))

\* C12: a nextToken() call with the cursor at the end of the buffer returns
\* EndOfFile with empty text and leaves pos, line and column as they are;
\* once EndOfFile has been returned, every later call returns that token.
C12_EndOfFileAbsorbing ==
    [][/\ pos = Len(src) =>
            /\ pos' = pos /\ line' = line /\ column' = column
            /\ \A i \in 1..Len(NewTokens) :
                   NewTokens[i] = Token("EndOfFile", <<>>, line, column)
       /\ (toks # <<>> /\ toks[Len(toks)].type = "EndOfFile") =>
            /\ pos = Len(src)
            /\ pos' = pos /\ line' = line /\ column' = column
            /\ \A i \in 1..Len(NewTokens) : NewTokens[i] = toks[Len(toks)]]_vars

\* C12 witness: EndOfFile has been returned twice on a source that ends in
\* whitespace.
C12_Witness ==
    /\ EofCount = 2
    /\ src # <<>>
    /\ isspace(src[Len(src)])
    /\ toks[Len(toks)] = toks[Len(toks) - 1]


\* the declare() calls made for a name, by their place in the history
DeclaresOf(name) == {i \in 1..Len(declared) : declared[i][1] = name}

\* the type given by the most recent declare() of a name
LastDeclared(name) ==
    LET i == CHOOSE k \in DeclaresOf(name) : \A j \in DeclaresOf(name) : j <= k
    IN  declared[i][2]

\* what a query of the table has to return
Expected(op, name) ==
    IF op = "exists" THEN DeclaresOf(name) # {}
    ELSE IF DeclaresOf(name) # {} THEN LastDeclared(name) ELSE ""

\* C13: exists(name) is true exactly when the name has been declared at least
\* once; typeOf(name) is the type of the most recent declare of the name, and
\* the empty string when it was never declared; neither query changes the
\* table.
C13_SymbolTable ==
    /\ [](answer.op # "none" => answer.result = Expected(answer.op, answer.name))
    /\ [][answer'.op # "none" => symbols' = symbols]_vars

\* C13 witness: a name declared twice with different types, then queried by
\* typeOf.
C13_Witness ==
    /\ Len(declared) >= 2
    /\ declared[1][1] = declared[2][1]
    /\ declared[1][2] # declared[2][2]
    /\ answer.op = "typeOf"
    /\ answer.name = declared[2][1]


\* the characters a print() call wrote to the stream
Written(p) == SubSeq(out, p.from + 1, p.to)

\* n blanks, stated without recursion
Blanks(n) == [i \in 1..n |-> 32]

\* "int x", "42"
StrIntX == <<105, 110, 116, 32, 120>>
StrFortyTwo == <<52, 50>>

\* whether t is the decimal numeral of v: an optional '-', then digits that
\* read back as the magnitude, with no leading zero
IsNumeral(t, v) ==
    LET d == IF v < 0 THEN Tail(t) ELSE t
        m == IF v < 0 THEN -v ELSE v
    IN  /\ t # <<>>
        /\ v < 0 => t[1] = 45
        /\ d # <<>>
        /\ \A i \in 1..Len(d) : isdigit(d[i])
        /\ Len(d) > 1 => d[1] # 48
        /\ stoi(d).what = "ok"
        /\ stoi(d).value = m

\* whether t is the one line a leaf writes at indent n
IsLeafLine(t, node, n) ==
    LET label == IF node.kind = "Number" THEN StrNumber ELSE StrIdentifier
        head == Blanks(n) \o label
        body == SubSeq(t, Len(head) + 1, Len(t) - 1)
    IN  /\ Len(t) > Len(head)
        /\ SubSeq(t, 1, Len(head)) = head
        /\ t[Len(t)] = 10
        /\ IF node.kind = "Number" THEN IsNumeral(body, node.value)
           ELSE body = node.name

\* C14: a Declaration rendered at indent n writes n blanks and
\* "Declaration: <type> <name>", then its Number (Identifier) child on a line
\* of its own at indent n + 2 as "Number: <value>" ("Identifier: <name>");
\* the declaration parsed from "int x = 42;" rendered at indent 0 gives
\* "Declaration: int x" and "  Number: 42".
C14_DeclarationRendering ==
    \A k \in 1..Len(printed) :
        LET p == printed[k]
            t == Written(p)
            head == Blanks(p.indent) \o StrDeclaration \o p.node.type \o <<32>>
                    \o p.node.name \o <<10>>
            rest == SubSeq(t, Len(head) + 1, Len(t))
        IN  p.node.kind = "Declaration" =>
              /\ Len(t) >= Len(head)
              /\ SubSeq(t, 1, Len(head)) = head
              /\ p.node.value = null => rest = <<>>
              /\ (p.node.value # null /\ p.node.value.kind # "Declaration") =>
                    IsLeafLine(rest, p.node.value, p.indent + 2)
              /\ (src = SrcMain /\ calls # <<>> /\ p.node = calls[1].node
                    /\ p.indent = 0) =>
                    t = StrDeclaration \o StrIntX \o <<10, 32, 32>> \o StrNumber
                        \o StrFortyTwo \o <<10>>

\* C14 witness: the declaration parsed from "int x = 42;" has been rendered
\* at indent 0.
C14_Witness ==
    /\ src = SrcMain
    /\ calls # <<>>
    /\ printed # <<>>
    /\ printed[1].indent = 0
    /\ printed[1].node = calls[1].node
    /\ printed[1].node.kind = "Declaration"
    /\ printed[1].node.value.kind = "Number"


\* the call a step of parseDeclaration() adds to the history
NewCall == calls'[Len(calls')]

\* C15: a parseDeclaration() call that fails at checkpoint k has pulled
\* exactly k - 1 tokens from the Lexer, and the Parser's current token is the
\* last token pulled, which checkpoint k refuses; a failure at Start leaves
\* the Parser's current token and the Lexer's cursor as they were, and the
\* call after a failure at Start fails at Start with the same diagnostic.
C15_NoSkipNoRetry ==
    [][(Len(calls') = Len(calls) + 1 /\ NewCall.outcome = "absent") =>
         /\ NewCall.failedAt \in 1..5
         /\ Len(toks') = Len(toks) + NewCall.failedAt - 1
         /\ current' = toks'[Len(toks')]
         /\ ~ExpectedAt(NewCall.failedAt, KindText(current'))
         /\ NewCall.failedAt = 1 =>
               /\ current' = current
               /\ pos' = pos /\ line' = line /\ column' = column
         /\ (calls # <<>> /\ calls[Len(calls)].failedAt = 1) =>
               /\ NewCall.failedAt = 1
               /\ NewCall.diag = calls[Len(calls)].diag
               /\ NewCall.currentAfter = calls[Len(calls)].currentAfter]_vars

\* C15 witness: two calls in a row have failed at Start on the same token,
\* which is not the end of the source.
C15_Witness ==
    /\ Len(calls) >= 2
    /\ calls[1].failedAt = 1
    /\ calls[2].failedAt = 1
    /\ calls[2].currentAfter = calls[1].currentBefore
    /\ calls[1].currentBefore.type = "Identifier"
    /\ calls[2].lexAfter.pos = calls[1].posBefore


\* for each token of s from index i on, EndOfFile included, the number of
\* characters of s up to the end of its lexeme
RECURSIVE RefEnds(_, _)
RefEnds(s, i) ==
    LET k == RunEnd(s, i, isspace)
    IN  IF k > Len(s) THEN <<Len(s)>>
        ELSE LET e == RefEnd(s, k)
             IN  <<e - 1>> \o RefEnds(s, e)

\* C16: the Lexer's line is 1 plus the number of newlines among the
\* characters consumed so far, and the line of each token returned is 1 plus
\* the number of newlines before the end of its lexeme.
C16_LineCountsNewlines ==
    /\ line = LineAt(src, pos)
    /\ toks # <<>> =>
         LET ends == RefEnds(src, 1)
         IN  \A i \in 1..Len(toks) :
                toks[i].line =
                    LineAt(src, IF i <= Len(ends) THEN ends[i] ELSE Len(src))

\* C16 witness: a token of line 2 has been returned and the Lexer has gone
\* on to line 3.
C16_Witness ==
    /\ line = 3
    /\ \E i \in 1..Len(toks) :
          /\ toks[i].type # "EndOfFile"
          /\ toks[i].line = 2


\* how many tokens of a list are not EndOfFile
NonEof(ts) == Cardinality({i \in 1..Len(ts) : ts[i].type # "EndOfFile"})

\* C17: no step moves the cursor back or past the end of the buffer; a step
\* consumes at least one character for each token other than EndOfFile it
\* returns, so a source of n characters yields at most n such tokens; and a
\* parseDeclaration() call ends after at most five nextToken() calls.
C17_LexerProgress ==
    [][/\ pos' >= pos
       /\ pos' <= Len(src)
       /\ NonEof(NewTokens) <= pos' - pos
       /\ NonEof(toks') <= Len(src)
       /\ (Len(toks') = Len(toks) + 1 /\ toks'[Len(toks')].type # "EndOfFile")
             => pos' > pos
       /\ Len(calls') = Len(calls) + 1 => Len(NewTokens) <= 5]_vars

\* C17 witness: a source of three characters has given its three tokens and
\* then EndOfFile.
C17_Witness ==
    /\ Len(src) = 3
    /\ NonEof(toks) = 3
    /\ EofCount >= 1
    /\ pos = 3


\* the texts of a token list, one after the other
RECURSIVE Texts(_)
Texts(ts) == IF ts = <<>> THEN <<>> ELSE ts[1].value \o Texts(Tail(ts))

\* a string without its whitespace characters
NoSpace(s) == SelectSeq(s, LAMBDA c : ~isspace(c))

\* C18: the texts of the tokens returned so far, in order, are the consumed
\* part of the source without its whitespace, which is the whole source once
\* EndOfFile has been returned; every token other than EndOfFile has a
\* non-empty text.
C18_NoCharacterLostOrDuplicated ==
    /\ Texts(toks) = NoSpace(SubSeq(src, 1, pos))
    /\ EofCount >= 1 => Texts(toks) = NoSpace(src)
    /\ \A i \in 1..Len(toks) :
          toks[i].type # "EndOfFile" => toks[i].value # <<>>

\* C18 witness: "int x 42;" has been tokenized to its end.
C18_Witness ==
    /\ src = SrcNoEquals
    /\ EofCount >= 1
    /\ NonEof(toks) = 4


\* C19: two print() calls on the same node with the same indent write the
\* same characters, whatever the stream already holds, and a print() call
\* leaves the node and all its fields as they were.
C19_RenderingIdempotent ==
    /\ [](\A i, j \in 1..Len(printed) :
            (printed[i].node = printed[j].node
             /\ printed[i].indent = printed[j].indent)
                => Written(printed[i]) = Written(printed[j]))
    /\ [][Len(printed') = Len(printed) + 1 =>
            /\ ast' = ast
            /\ printed'[Len(printed')].node = ast
            /\ SubSeq(out', 1, Len(out)) = out]_vars

\* C19 witness: the same Declaration with a child has been rendered twice at
\* indent 2.
C19_Witness ==
    /\ Len(printed) = 2
    /\ printed[1].node = printed[2].node
    /\ printed[1].indent = 2
    /\ printed[2].indent = 2
    /\ ast.kind = "Declaration"
    /\ ast.value # null
    /\ out # <<>>

====
